---- MODULE Spec2Model ----
(***************************************************************************)
(* Model of the bit-level reader BitBuffer (src/src/bit_buffer.rs).        *)
(*                                                                         *)
(* The reader stages bytes of a byte source in a fixed buffer and hands    *)
(* out fields of 1..64 bits, MSB first.  The model keeps the reader's      *)
(* fields under their source names, the byte source (its contents, its     *)
(* length and its cursor), the build profile (debug assertions and         *)
(* overflow checks on, or off), and the Result the last operation handed   *)
(* to its caller.                                                          *)
(*                                                                         *)
(* 64-bit quantities are kept as four 16-bit limbs, most significant       *)
(* first, so that every width of the code's arithmetic is represented      *)
(* exactly.                                                                *)
(***************************************************************************)
EXTENDS Integers, Sequences, FiniteSets, TLC

-----------------------------------------------------------------------------
(* Program constants *)

\* table_b::MAX_BIT_WIDTH: the widest field, in bits
MAX_BIT_WIDTH == 64

\* a staging buffer of twice as many bytes
BUF_SIZE_Doubled == 2 * MAX_BIT_WIDTH

\* const BUF_SIZE: usize = table_b::MAX_BIT_WIDTH (a byte count)
BUF_SIZE == MAX_BIT_WIDTH

\* const BYTE_ARRAY_SIZE = ceil(MAX_BIT_WIDTH / 8)
BYTE_ARRAY_SIZE ==
    IF MAX_BIT_WIDTH % 8 = 0 THEN MAX_BIT_WIDTH \div 8 ELSE MAX_BIT_WIDTH \div 8 + 1

\* the width of u64, the type read_u64 returns (8 * 8 in its assertion)
U64_BITS == 64

-----------------------------------------------------------------------------
(* Bounds of the model *)

\* the budgets tried are 0, SmallBudget and BUF_SIZE + SmallBudget
SmallBudget == 2

\* the source holds SrcSlack bytes more, or SrcSlack bytes fewer, than the budget
SrcSlack == 1

\* reads that move the cursor before the last read of a behaviour
MaxSteps == 1

\* numeric widths 0..U64_BITS + OverWidth are requested
OverWidth == 1

-----------------------------------------------------------------------------
VARIABLES
    build,              \* "debug": debug_assertions and overflow-checks on; "release": off
    pattern,            \* which byte stream the source holds
    srcLen,             \* number of bytes the source holds
    srcDrains,          \* a failed read_exact consumes what the source had left
    srcPos,             \* bytes the source has handed out or dropped so far
    max_bytes_to_read,
    bytes_read,
    buffer,
    buffer_len,
    byte_position,
    bit_position,
    offset,             \* history: stream bits handed to the caller by completed pulls
    pulled,             \* history: bytes delivered by completed exact-length reads
    calls,              \* history: calls of read_exact made on the source
    ops,                \* history: read operations started
    result              \* the Result the last operation returned, until the caller drops it

vars == <<build, pattern, srcLen, srcDrains, srcPos, max_bytes_to_read, bytes_read,
          buffer, buffer_len, byte_position, bit_position, offset, pulled, calls, ops, result>>

-----------------------------------------------------------------------------
(* Bytes and bits *)

Pow2(n) == 2 ^ n

\* F applied to the value of e, with e evaluated once
With(e, F(_)) == CHOOSE y \in {F(x) : x \in {e}} : TRUE

\* bit i (0 = least significant) of byte x
BitAt(x, i) == (x \div Pow2(i)) % 2

\* u8 & u8, bit by bit
And8Bits(x, y) ==
      BitAt(x, 0) * BitAt(y, 0)       + 2 * BitAt(x, 1) * BitAt(y, 1)
    + 4 * BitAt(x, 2) * BitAt(y, 2)   + 8 * BitAt(x, 3) * BitAt(y, 3)
    + 16 * BitAt(x, 4) * BitAt(y, 4)  + 32 * BitAt(x, 5) * BitAt(y, 5)
    + 64 * BitAt(x, 6) * BitAt(y, 6)  + 128 * BitAt(x, 7) * BitAt(y, 7)

\* u8 & u8
And8(x, y) ==
    IF x = 255 THEN y ELSE IF y = 255 THEN x
    ELSE IF x = 0 \/ y = 0 THEN 0 ELSE And8Bits(x, y)

\* u8 | u8
Or8(x, y) ==
    IF x = 0 THEN y ELSE IF y = 0 THEN x ELSE x + y - And8Bits(x, y)

\* u8 << n and u8 >> n for 0 <= n < 8 (bits shifted out are lost)
Shl8(x, n) == (x * Pow2(n)) % 256
Shr8(x, n) == x \div Pow2(n)

-----------------------------------------------------------------------------
(* The byte source: a std::io::Read behind `reader` *)

\* "mixed" starts as the example stream 0b1011_0100, 0b1100_1010; "high" holds
\* i64::MAX at its head and a run of 79 one bits from bit 1 on
Patterns == {"mixed", "high"}

PatternBytes(p) ==
    CASE p = "mixed" -> <<180, 202, 65, 66>>
      [] p = "high"  -> <<127, 255, 255, 255, 255, 255, 255, 255, 255, 255, 65>>

\* byte i (from 0) of the source's stream
SrcByte(i) == PatternBytes(pattern)[(i % Len(PatternBytes(pattern))) + 1]

-----------------------------------------------------------------------------
(* The reader's mutable part, threaded through one operation.               *)
(* status: "ok", "io" (read_exact returned Err) or "panic" (the thread      *)
(* panicked: a failed assertion, an arithmetic overflow caught by the       *)
(* overflow checks, or an index out of bounds).                             *)

Machine ==
    [buffer |-> buffer, buffer_len |-> buffer_len, byte_position |-> byte_position,
     bit_position |-> bit_position, bytes_read |-> bytes_read, srcPos |-> srcPos,
     offset |-> offset, pulled |-> pulled, calls |-> calls, status |-> "ok"]

Panic(m) == [m EXCEPT !.status = "panic"]

\* Read::read_exact(&mut buf[0..k]): the next k bytes, or Err(UnexpectedEof).
\* On Err the contents of buf and the number of bytes taken from the source are
\* unspecified: the source either keeps them or hands over what it had left.
ReadExact(m, k) ==
    IF srcLen - m.srcPos >= k
    THEN [m EXCEPT !.buffer = [i \in 0..(BUF_SIZE - 1) |->
                                  IF i < k THEN SrcByte(m.srcPos + i) ELSE m.buffer[i]],
                   !.srcPos = @ + k,
                   !.pulled = @ + k,
                   !.calls = @ + 1]
    ELSE IF srcDrains
         THEN [m EXCEPT !.buffer = [i \in 0..(BUF_SIZE - 1) |->
                                       IF i < srcLen - m.srcPos
                                       THEN SrcByte(m.srcPos + i) ELSE m.buffer[i]],
                        !.srcPos = srcLen,
                        !.calls = @ + 1,
                        !.status = "io"]
         ELSE [m EXCEPT !.calls = @ + 1, !.status = "io"]

\* as RefillLen, but a full staging buffer is asked for whatever the budget leaves
RefillLen_FullBuffer(m) == BUF_SIZE

\* the length of the slice refill_buffer fills.  max_bytes_to_read - bytes_read
\* is a usize subtraction: were bytes_read larger, it would wrap to a value
\* above BUF_SIZE where overflow checks are off.
RefillLen(m) ==
    IF m.bytes_read > max_bytes_to_read THEN BUF_SIZE
    ELSE IF max_bytes_to_read - m.bytes_read >= BUF_SIZE THEN BUF_SIZE
    ELSE max_bytes_to_read - m.bytes_read

\* as RefillCount, but a full buffer is counted whatever was read
RefillCount_FullBuffer(m, k) == BUF_SIZE

\* what refill_buffer adds to bytes_read and stores in buffer_len after a read of k bytes
RefillCount(m, k) == k

\* as refill_buffer, but the bytes asked for are counted before the read is
\* known to have succeeded
refill_buffer_CountsFirst(m) ==
    IF m.bytes_read > max_bytes_to_read /\ build = "debug"
    THEN Panic(m)
    ELSE With(RefillLen(m), LAMBDA k :
         With(ReadExact(m, k), LAMBDA r :
            IF r.status # "ok"
            THEN [r EXCEPT !.bytes_read = @ + k]
            ELSE [r EXCEPT !.buffer_len = RefillCount(m, k),
                           !.bytes_read = @ + RefillCount(m, k),
                           !.byte_position = 0,
                           !.bit_position = 0]))

\* refill_buffer: the reader after it, status "io" when read_exact failed
refill_buffer(m) ==
    IF m.bytes_read > max_bytes_to_read /\ build = "debug"
    THEN Panic(m)
    ELSE With(RefillLen(m), LAMBDA k :
         With(ReadExact(m, k), LAMBDA r :
            IF r.status # "ok"
            THEN r
            ELSE [r EXCEPT !.buffer_len = RefillCount(m, k),
                           !.bytes_read = @ + RefillCount(m, k),
                           !.byte_position = 0,
                           !.bit_position = 0]))

\* (buffer_len - byte_position) * 8 - bit_position in usize.  A negative value
\* here stands for the wrapped one (2^64 more), which is never 0.
bits_remaining_in_buffer(m) == (m.buffer_len - m.byte_position) * 8 - m.bit_position

BitsRemainingOverflows(m) == bits_remaining_in_buffer(m) < 0

\* next_byte: [m, byte]
next_byte(m) ==
    IF BitsRemainingOverflows(m) /\ build = "debug"
    THEN [m |-> Panic(m), byte |-> 0]
    ELSE With(IF bits_remaining_in_buffer(m) = 0 THEN refill_buffer(m) ELSE m, LAMBDA m1 :
            IF m1.status # "ok" THEN [m |-> m1, byte |-> 0]
            ELSE IF m1.byte_position >= BUF_SIZE THEN [m |-> Panic(m1), byte |-> 0]
            ELSE [m |-> m1, byte |-> m1.buffer[m1.byte_position]])

\* the branch of read_u8 taken when the pull crosses into the next byte
ReadU8Split(m, bits) ==
    With(next_byte(m), LAMBDA n1 :
      IF n1.m.status # "ok" THEN [m |-> n1.m, val |-> 0]
      ELSE
      LET bits_left_in_byte == 8 - m.bit_position
          mask == Shr8(255, 8 - bits_left_in_byte)
          num_bits_in_next_byte == bits - bits_left_in_byte
          val1 == Shl8(Or8(0, And8(n1.byte, mask)), num_bits_in_next_byte)
      IN  With([n1.m EXCEPT !.bit_position = 0, !.byte_position = @ + 1], LAMBDA m2 :
          With(next_byte(m2), LAMBDA n2 :
            IF n2.m.status # "ok" THEN [m |-> n2.m, val |-> 0]
            ELSE [m |-> [n2.m EXCEPT !.bit_position = @ + num_bits_in_next_byte,
                                     !.offset = @ + bits],
                  val |-> Or8(val1, Shr8(n2.byte, 8 - num_bits_in_next_byte))])))

\* the branch of read_u8 taken when all the bits are in the current byte
ReadU8Whole(m, bits) ==
    With(next_byte(m), LAMBDA n1 :
      IF n1.m.status # "ok" THEN [m |-> n1.m, val |-> 0]
      ELSE
      LET shift == 8 - n1.m.bit_position - bits
          mask == Shl8(Shr8(255, 8 - bits), shift)
          pos == n1.m.bit_position + bits
      IN  With(IF pos = 8
               THEN [n1.m EXCEPT !.bit_position = 0, !.byte_position = @ + 1,
                                 !.offset = @ + bits]
               ELSE [n1.m EXCEPT !.bit_position = pos, !.offset = @ + bits], LAMBDA m2 :
            IF build = "debug" /\ ~(m2.bit_position < 8)
            THEN [m |-> Panic(m2), val |-> 0]
            ELSE [m |-> m2, val |-> Shr8(And8(n1.byte, mask), shift)]))

\* read_u8(bits): [m, val]; read_n_bits and read_text pass 1..8 only
read_u8(m, bits) ==
    IF build = "debug" /\ (bits > 8 \/ bits = 0)
    THEN [m |-> Panic(m), val |-> 0]
    ELSE With(IF 8 - m.bit_position < bits THEN ReadU8Split(m, bits)
              ELSE ReadU8Whole(m, bits), LAMBDA r :
            IF r.m.status = "ok" /\ build = "debug" /\ ~(r.val < Pow2(bits))
            THEN [m |-> Panic(r.m), val |-> 0]
            ELSE r)

num_bytes_to_hold_bits(n) == IF n % 8 = 0 THEN n \div 8 ELSE n \div 8 + 1

\* as FieldMask, but the first byte of the mask is left whole
FieldMask_WholeBytes(n) ==
    LET most_sig_byte == BYTE_ARRAY_SIZE - num_bytes_to_hold_bits(n)
    IN  [i \in 0..(BYTE_ARRAY_SIZE - 1) |-> IF i < most_sig_byte THEN 0 ELSE 255]

\* the all-ones mask read_n_bits builds for a field of n bits
FieldMask(n) ==
    LET most_sig_byte == BYTE_ARRAY_SIZE - num_bytes_to_hold_bits(n)
        bits_first_byte == IF n % 8 = 0 THEN 8 ELSE n % 8
    IN  [i \in 0..(BYTE_ARRAY_SIZE - 1) |->
            IF i < most_sig_byte THEN 0
            ELSE IF i = most_sig_byte THEN Shr8(255, 8 - bits_first_byte)
            ELSE 255]

\* the loop of read_n_bits over vals[i], i from `i` to BYTE_ARRAY_SIZE - 1
RECURSIVE LoadBytes(_, _, _, _)
LoadBytes(m, vals, mask, i) ==
    IF i >= BYTE_ARRAY_SIZE \/ m.status # "ok" THEN [m |-> m, vals |-> vals]
    ELSE With(read_u8(m, 8), LAMBDA r :
         With([vals EXCEPT ![i] = And8(mask[i], r.val)], LAMBDA v :
            LoadBytes(r.m, v, mask, i + 1)))

\* vals == mask: every bit of the field is 1
IsMissing(vals, mask) == vals = mask

\* read_n_bits(n): [m, vals, missing].  With n = 0 or n > 8 * BYTE_ARRAY_SIZE the
\* index most_sig_byte is outside mask (after a wrapped subtraction, or a panic
\* on it): the thread panics in either build.
read_n_bits(m, n) ==
    LET zeros == [i \in 0..(BYTE_ARRAY_SIZE - 1) |-> 0]
        most_sig_byte == BYTE_ARRAY_SIZE - num_bytes_to_hold_bits(n)
        bits_first_byte == IF n % 8 = 0 THEN 8 ELSE n % 8
    IN  IF most_sig_byte < 0 \/ most_sig_byte >= BYTE_ARRAY_SIZE
        THEN [m |-> Panic(m), vals |-> zeros, missing |-> FALSE]
        ELSE With(FieldMask(n), LAMBDA mask :
             With(read_u8(m, bits_first_byte), LAMBDA first :
             With([zeros EXCEPT ![most_sig_byte] = And8(mask[most_sig_byte], first.val)],
                  LAMBDA v0 :
             With(LoadBytes(first.m, v0, mask, most_sig_byte + 1), LAMBDA rest :
                [m |-> rest.m, vals |-> rest.vals,
                 missing |-> rest.m.status = "ok" /\ IsMissing(rest.vals, mask)]))))

-----------------------------------------------------------------------------
(* u64 and i64 values: four 16-bit limbs, most significant first *)

ZeroLimbs == <<0, 0, 0, 0>>

\* u64::from_be_bytes of vals[(BYTE_ARRAY_SIZE - 8)..]
FromBeBytes(vals) ==
    LET b(j) == vals[BYTE_ARRAY_SIZE - 8 + j]
    IN  <<b(0) * 256 + b(1), b(2) * 256 + b(3), b(4) * 256 + b(5), b(6) * 256 + b(7)>>

\* a < b as unsigned numbers
LimbsLess(a, b) ==
    \E j \in 1..4 : a[j] < b[j] /\ \A k \in 1..(j - 1) : a[k] = b[k]

\* 2^n for 0 <= n < 64
Pow2Limbs(n) == [j \in 1..4 |-> IF j = 4 - (n \div 16) THEN Pow2(n % 16) ELSE 0]

\* the debug assertion val < (1u64 << bits) of read_u64: the shift overflows
\* when bits is 64 (a panic under overflow checks)
ValueFitsAssertFails(val, bits) ==
    IF bits >= U64_BITS THEN TRUE ELSE ~LimbsLess(val, Pow2Limbs(bits))

\* the debug assertions on the width at the head of read_u64
WidthAssertFails(bits) == bits > 8 * 8 \/ bits = 0

\* read_u64(bits): [m, kind, val]; kind is "value" (Ok(Some)), "absent"
\* (Ok(None)), "io_error" (Err) or "panic"
read_u64(m, bits) ==
    IF build = "debug" /\ WidthAssertFails(bits)
    THEN [m |-> Panic(m), kind |-> "panic", val |-> ZeroLimbs]
    ELSE With(read_n_bits(m, bits), LAMBDA r :
            IF r.m.status = "panic" THEN [m |-> r.m, kind |-> "panic", val |-> ZeroLimbs]
            ELSE IF r.m.status = "io" THEN [m |-> r.m, kind |-> "io_error", val |-> ZeroLimbs]
            ELSE IF r.missing THEN [m |-> r.m, kind |-> "absent", val |-> ZeroLimbs]
            ELSE With(FromBeBytes(r.vals), LAMBDA val :
                    IF build = "debug" /\ ValueFitsAssertFails(val, bits)
                    THEN [m |-> Panic(r.m), kind |-> "panic", val |-> ZeroLimbs]
                    ELSE [m |-> r.m, kind |-> "value", val |-> val]))

\* read_usize: usize::try_from(u64) cannot fail where usize has 64 bits
read_usize(m, bits) == read_u64(m, bits)

-----------------------------------------------------------------------------
(* read_i64: i64 values are 64-bit two's complement patterns in limbs *)

\* the top limb of a pattern whose sign bit is set starts here
I64_MIN_LIMB == Pow2(15)

\* the i64 whose value is the small integer n
I64Of(n) ==
    IF n >= 0 THEN <<0, 0, 0, n>> ELSE <<65535, 65535, 65535, 65536 + n>>

IsNegative(x) == x[1] >= I64_MIN_LIMB

\* i64::try_from(u64) fails above i64::MAX
TryFromFails(val) == val[1] >= I64_MIN_LIMB

\* the value read_i64 returns for the raw field value val: reference_val is not used
SignedValue(val, reference_val) == val

\* read_i64(bits, reference_val): [m, kind, val]; kind as for read_u64, or
\* "conversion_error" (Err(TryFromIntError))
read_i64(m, bits, reference_val) ==
    With(read_u64(m, bits), LAMBDA r :
        IF r.kind # "value" THEN r
        ELSE IF TryFromFails(r.val)
        THEN [m |-> r.m, kind |-> "conversion_error", val |-> ZeroLimbs]
        ELSE [m |-> r.m, kind |-> "value", val |-> SignedValue(r.val, reference_val)])

-----------------------------------------------------------------------------
(* read_f64: an f64 that holds an integer is its sign and its magnitude; a  *)
(* quotient by a power of ten is kept as the f64 divided and the scale      *)

\* bit w (0 = least significant) of a 64-bit pattern
LimbBit(v, w) == (v[4 - (w \div 16)] \div Pow2(w % 16)) % 2

\* a + b on 64-bit patterns: the low 64 bits and the carry out
Add64(a, b) ==
    LET s4 == a[4] + b[4]
        s3 == a[3] + b[3] + (s4 \div 65536)
        s2 == a[2] + b[2] + (s3 \div 65536)
        s1 == a[1] + b[1] + (s2 \div 65536)
    IN  [limbs |-> <<s1 % 65536, s2 % 65536, s3 % 65536, s4 % 65536>>,
         carry |-> s1 \div 65536]

\* the magnitude of the i64 x
Magnitude(x) ==
    IF IsNegative(x)
    THEN Add64([j \in 1..4 |-> 65535 - x[j]], <<0, 0, 0, 1>>).limbs
    ELSE x

\* the bits of the significand of an f64
F64_MANTISSA_DIGITS == 53

\* the integer nearest to mag that has at most F64_MANTISSA_DIGITS significant
\* bits, ties to the even one
RoundToF64(mag) ==
    IF mag = ZeroLimbs THEN mag
    ELSE LET top == CHOOSE w \in 0..(U64_BITS - 1) :
                        /\ LimbBit(mag, w) = 1
                        /\ \A u \in (w + 1)..(U64_BITS - 1) : LimbBit(mag, u) = 0
             drop == top - (F64_MANTISSA_DIGITS - 1)
         IN  IF drop <= 0 THEN mag
             ELSE LET low == mag[4] % Pow2(drop)
                      kept == [mag EXCEPT ![4] = @ - low]
                  IN  IF \/ low > Pow2(drop - 1)
                         \/ low = Pow2(drop - 1) /\ LimbBit(mag, drop) = 1
                      THEN Add64(kept, Pow2Limbs(drop)).limbs
                      ELSE kept

\* v as f64
AsF64(v) == [neg |-> IsNegative(v), mag |-> RoundToF64(Magnitude(v))]

\* the f64 map closure of read_f64: v / f64::powi(10.0, scale) when scale is
\* not 0 (the pair is kept: divided says a division was applied), else v
Scaled(v, scale) ==
    [neg |-> v.neg, mag |-> v.mag, divided |-> scale # 0,
     scale |-> IF scale # 0 THEN scale ELSE 0]

\* as read_f64, but reference_val is added to what read_i64 returned
read_f64_AddsReference(m, bits, reference_val, scale) ==
    With(read_i64(m, bits, reference_val), LAMBDA r :
        IF r.kind # "value" THEN r
        ELSE [m |-> r.m, kind |-> "value",
              val |-> Scaled(AsF64(Add64(r.val, reference_val).limbs), scale)])

\* read_f64(bits, reference_val, scale): [m, kind, val]; kind as for read_i64
read_f64(m, bits, reference_val, scale) ==
    With(read_i64(m, bits, reference_val), LAMBDA r :
        IF r.kind # "value" THEN r
        ELSE [m |-> r.m, kind |-> "value", val |-> Scaled(AsF64(r.val), scale)])

-----------------------------------------------------------------------------
(* read_text *)

IsCont(b) == b >= 128 /\ b <= 191

\* core::str::from_utf8 accepts the bytes of s from index i on
RECURSIVE Utf8Valid(_, _)
Utf8Valid(s, i) ==
    IF i > Len(s) THEN TRUE
    ELSE LET b == s[i]
             has(k) == i + k <= Len(s)
         IN  IF b < 128 THEN Utf8Valid(s, i + 1)
             ELSE IF b >= 194 /\ b <= 223
                  THEN has(1) /\ IsCont(s[i + 1]) /\ Utf8Valid(s, i + 2)
             ELSE IF b >= 224 /\ b <= 239
                  THEN /\ has(2)
                       /\ IsCont(s[i + 1]) /\ IsCont(s[i + 2])
                       /\ (b = 224 => s[i + 1] >= 160)
                       /\ (b = 237 => s[i + 1] <= 159)
                       /\ Utf8Valid(s, i + 3)
             ELSE IF b >= 240 /\ b <= 244
                  THEN /\ has(3)
                       /\ IsCont(s[i + 1]) /\ IsCont(s[i + 2]) /\ IsCont(s[i + 3])
                       /\ (b = 240 => s[i + 1] >= 144)
                       /\ (b = 244 => s[i + 1] <= 143)
                       /\ Utf8Valid(s, i + 4)
             ELSE FALSE

\* as ReadChars, but each byte pulled is put in front of the ones before it
RECURSIVE ReadChars_Prepend(_, _, _)
ReadChars_Prepend(m, buf, num_chars) ==
    IF num_chars = 0 \/ m.status # "ok" THEN [m |-> m, buf |-> buf]
    ELSE IF num_chars = 1
    THEN With(read_u8(m, 8), LAMBDA r :
            [m |-> r.m, buf |-> IF r.m.status = "ok" THEN <<r.val>> \o buf ELSE buf])
    ELSE With(ReadChars_Prepend(m, buf, num_chars \div 2), LAMBDA h :
            ReadChars_Prepend(h.m, h.buf, num_chars - (num_chars \div 2)))

\* the loop of read_text: num_chars pulls of 8 bits, each pushed on buf (the
\* pulls are taken in order, first half then second half of the loop's range)
RECURSIVE ReadChars(_, _, _)
ReadChars(m, buf, num_chars) ==
    IF num_chars = 0 \/ m.status # "ok" THEN [m |-> m, buf |-> buf]
    ELSE IF num_chars = 1
    THEN With(read_u8(m, 8), LAMBDA r :
            [m |-> r.m, buf |-> IF r.m.status = "ok" THEN Append(buf, r.val) ELSE buf])
    ELSE With(ReadChars(m, buf, num_chars \div 2), LAMBDA h :
            ReadChars(h.m, h.buf, num_chars - (num_chars \div 2)))

\* the debug assertion at the head of read_text
TextAssertFails(bits) == bits % 8 # 0

\* read_text(bits): [m, kind, val]; kind is "value" (Ok(String), val its bytes),
\* "io_error", "utf8_error" (Err(FromUtf8Error)) or "panic"
read_text(m, bits) ==
    IF build = "debug" /\ TextAssertFails(bits)
    THEN [m |-> Panic(m), kind |-> "panic", val |-> <<>>]
    ELSE With(ReadChars(m, <<>>, bits \div 8), LAMBDA r :
            IF r.m.status = "panic" THEN [m |-> r.m, kind |-> "panic", val |-> <<>>]
            ELSE IF r.m.status = "io" THEN [m |-> r.m, kind |-> "io_error", val |-> <<>>]
            ELSE IF ~Utf8Valid(r.buf, 1) THEN [m |-> r.m, kind |-> "utf8_error", val |-> <<>>]
            ELSE [m |-> r.m, kind |-> "value", val |-> r.buf])

-----------------------------------------------------------------------------
(* The operations *)

NoResult ==
    [op |-> "none", bits |-> 0, ref |-> ZeroLimbs, scale |-> 0, kind |-> "none", val |-> <<>>,
     start |-> 0]

\* the widths asked of read_usize: every valid one, 0, and the ones just above
NumWidths == 0..(U64_BITS + OverWidth)

\* the widths of the reads after which the caller goes on reading; they bring
\* the cursor to every bit position of a byte
StepWidths == 1..8

\* the widths asked of read_i64
SignedWidths == {0, 8, 13, U64_BITS - 1, U64_BITS, U64_BITS + OverWidth}

\* the reference values passed to read_i64
References == {I64Of(0), I64Of(2), I64Of(-3)}

\* the scales passed to read_f64
Scales == {0, 2}

\* the widths asked of read_text: the last one leaves the cursor one byte
\* before the end of a full staging buffer
TextWidths == {0, 8, 12, 16, 8 * (BUF_SIZE - 1)}

Budgets == {0, SmallBudget, BUF_SIZE + SmallBudget}

\* as Init, but the constructor stages the first bytes when the source has them
Init_Prefetch ==
    /\ build \in {"debug", "release"}
    /\ pattern \in Patterns
    /\ max_bytes_to_read \in Budgets
    /\ srcLen \in {n \in {max_bytes_to_read - SrcSlack, max_bytes_to_read + SrcSlack} : n >= 0}
    /\ srcDrains \in (IF srcLen < max_bytes_to_read THEN BOOLEAN ELSE {FALSE})
    /\ \E k \in {IF max_bytes_to_read >= BUF_SIZE THEN BUF_SIZE
                 ELSE IF srcLen >= max_bytes_to_read THEN max_bytes_to_read ELSE 0} :
          /\ srcPos = k
          /\ bytes_read = k
          /\ buffer = [i \in 0..(BUF_SIZE - 1) |-> IF i < k THEN SrcByte(i) ELSE 0]
          /\ buffer_len = k
          /\ pulled = k
          /\ calls = 1
    /\ byte_position = 0
    /\ bit_position = 0
    /\ offset = 0
    /\ ops = 0
    /\ result = NoResult

\* BitBuffer::new(reader, max_bytes_to_read)
Init ==
    /\ build \in {"debug", "release"}
    /\ pattern \in Patterns
    /\ max_bytes_to_read \in Budgets
    /\ srcLen \in {n \in {max_bytes_to_read - SrcSlack, max_bytes_to_read + SrcSlack} : n >= 0}
    /\ srcDrains \in (IF srcLen < max_bytes_to_read THEN BOOLEAN ELSE {FALSE})
    /\ srcPos = 0
    /\ bytes_read = 0
    /\ buffer = [i \in 0..(BUF_SIZE - 1) |-> 0]
    /\ byte_position = 0
    /\ bit_position = 0
    /\ buffer_len = 0
    /\ offset = 0
    /\ pulled = 0
    /\ calls = 0
    /\ ops = 0
    /\ result = NoResult

\* the reader after an operation that left it as m
Commit(m) ==
    /\ buffer' = m.buffer
    /\ buffer_len' = m.buffer_len
    /\ byte_position' = m.byte_position
    /\ bit_position' = m.bit_position
    /\ bytes_read' = m.bytes_read
    /\ srcPos' = m.srcPos
    /\ offset' = m.offset
    /\ pulled' = m.pulled
    /\ calls' = m.calls
    /\ ops' = ops + 1
    /\ UNCHANGED <<build, pattern, srcLen, srcDrains, max_bytes_to_read>>

\* the caller may call the reader: it holds no Result and no panic has ended the thread
CanCall == result.op = "none"

\* read_usize(bits)
ReadUnsigned ==
    \E bits \in NumWidths :
        /\ CanCall
        /\ \E m \in {Machine} : \E r \in {read_usize(m, bits)} :
               /\ Commit(r.m)
               /\ result' = [op |-> "read_usize", bits |-> bits, ref |-> ZeroLimbs,
                             scale |-> 0, kind |-> r.kind, val |-> r.val, start |-> offset]

\* read_i64(bits, reference_val)
ReadSigned ==
    \E bits \in SignedWidths, reference_val \in References :
        /\ CanCall
        /\ \E m \in {Machine} : \E r \in {read_i64(m, bits, reference_val)} :
               /\ Commit(r.m)
               /\ result' = [op |-> "read_i64", bits |-> bits, ref |-> reference_val,
                             scale |-> 0, kind |-> r.kind, val |-> r.val, start |-> offset]

\* read_text(bits)
ReadText ==
    \E bits \in TextWidths :
        /\ CanCall
        /\ \E m \in {Machine} : \E r \in {read_text(m, bits)} :
               /\ Commit(r.m)
               /\ result' = [op |-> "read_text", bits |-> bits, ref |-> ZeroLimbs,
                             scale |-> 0, kind |-> r.kind, val |-> r.val, start |-> offset]

\* read_f64(bits, reference_val, scale)
ReadReal ==
    \E bits \in SignedWidths, reference_val \in References, scale \in Scales :
        /\ CanCall
        /\ \E m \in {Machine} : \E r \in {read_f64(m, bits, reference_val, scale)} :
               /\ Commit(r.m)
               /\ result' = [op |-> "read_f64", bits |-> bits, ref |-> reference_val,
                             scale |-> scale, kind |-> r.kind, val |-> r.val,
                             start |-> offset]

\* the caller drops the Result it was handed and goes on; a panic leaves nothing
\* to go on with.  Behaviours are followed past reads of text and of StepWidths
\* bits, MaxSteps times.
DropResult ==
    /\ result.op # "none"
    /\ result.kind # "panic"
    /\ ops <= MaxSteps
    /\ result.op = "read_text" \/ result.bits \in StepWidths
    /\ result' = NoResult
    /\ UNCHANGED <<build, pattern, srcLen, srcDrains, srcPos, max_bytes_to_read, bytes_read,
                   buffer, buffer_len, byte_position, bit_position, offset, pulled, calls, ops>>

Next == ReadUnsigned \/ ReadSigned \/ ReadReal \/ ReadText \/ DropResult

Spec == Init /\ [][Next]_vars

-----------------------------------------------------------------------------
(* The stream the caller is owed: the bits of the source, MSB first, as far  *)
(* as the budget and the source reach                                        *)

\* bit i (from 0) of the source's stream
StreamBit(i) == BitAt(SrcByte(i \div 8), 7 - (i % 8))

\* the n bits from bit o on are all 1
AllOnes(o, n) == \A i \in o..(o + n - 1) : StreamBit(i) = 1

\* the bit of weight 2^w of the n-bit field that starts at bit o
FieldBit(o, n, w) == IF w < n THEN StreamBit(o + n - 1 - w) ELSE 0

RECURSIVE LimbOf(_, _, _, _)
LimbOf(o, n, base, k) ==
    IF k < 0 THEN 0 ELSE Pow2(k) * FieldBit(o, n, base + k) + LimbOf(o, n, base, k - 1)

\* the n-bit field that starts at bit o, read as a big-endian unsigned number
FieldValue(o, n) == [j \in 1..4 |-> LimbOf(o, n, 16 * (4 - j), 15)]

\* the bytes the source can deliver within the budget: all of the budget, or,
\* from a source that holds less, the exact-length reads of BUF_SIZE bytes it
\* can still satisfy
Deliverable ==
    IF srcLen >= max_bytes_to_read THEN max_bytes_to_read
    ELSE (srcLen \div BUF_SIZE) * BUF_SIZE

\* the n bits from bit o on are bits the source can deliver within the budget
InStream(o, n) == o + n <= 8 * Deliverable

ValidWidth(n) == n >= 1 /\ n <= U64_BITS

\* raw + reference, raw unsigned and reference signed, is within the range of i64
SumFits(raw, reference) ==
    LET s == Add64(raw, reference)
    IN  IF IsNegative(reference)
        THEN ~(s.carry = 1 /\ IsNegative(s.limbs))
        ELSE s.carry = 0 /\ ~IsNegative(s.limbs)

\* the request of the last operation met its precondition
ValidRequest ==
    \/ result.op \in {"read_usize", "read_i64"} /\ ValidWidth(result.bits)
    \/ result.op = "read_text" /\ result.bits % 8 = 0

-----------------------------------------------------------------------------
(* C1: with a source that holds at least max_bytes_to_read bytes, reads     *)
(* succeed with respect to I/O while the bits requested stay within         *)
(* 8 * max_bytes_to_read, and the first read that needs a bit beyond that   *)
(* returns a source-exhausted error (no value, no absent, no crash).        *)
C1_ExhaustedAtBudget ==
    (/\ srcLen >= max_bytes_to_read
     /\ ValidRequest
     /\ result.start <= 8 * max_bytes_to_read)
    => IF result.start + result.bits <= 8 * max_bytes_to_read
       THEN result.kind # "io_error"
       ELSE result.kind = "io_error"

(* C2: for every width N in 1..64 and every cursor position, when the next  *)
(* N bits of the stream are not all ones, read_usize(N) returns the integer *)
(* whose N-bit big-endian representation is those bits.                     *)
C2_UnsignedIsFieldValue ==
    (/\ result.op = "read_usize"
     /\ ValidWidth(result.bits)
     /\ InStream(result.start, result.bits)
     /\ ~AllOnes(result.start, result.bits))
    => /\ result.kind = "value"
       /\ result.val = FieldValue(result.start, result.bits)

(* C3: for every width N in 1..64 and every cursor position, read_usize(N)  *)
(* returns absent exactly when all N bits of the field's span are 1,        *)
(* whatever the bits around the span are.                                   *)
C3_AbsentIffAllOnes ==
    (/\ result.op = "read_usize"
     /\ ValidWidth(result.bits)
     /\ InStream(result.start, result.bits))
    => (result.kind = "absent" <=> AllOnes(result.start, result.bits))

\* an absent field that starts and ends inside a byte, after a 0 bit
C3_Witness ==
    /\ result.op = "read_usize"
    /\ result.kind = "absent"
    /\ InStream(result.start, result.bits)
    /\ result.bits > 8
    /\ result.start % 8 # 0
    /\ (result.start + result.bits) % 8 # 0
    /\ StreamBit(result.start - 1) = 0

(* C4: when present, the value read_i64(bits, reference_val) returns is the *)
(* unsigned value of the field plus reference_val.                          *)
C4_SignedAddsReference ==
    (/\ result.op = "read_i64"
     /\ ValidWidth(result.bits)
     /\ InStream(result.start, result.bits)
     /\ result.kind = "value")
    => /\ SumFits(FieldValue(result.start, result.bits), result.ref)
       /\ result.val = Add64(FieldValue(result.start, result.bits), result.ref).limbs

(* C5: read_i64 returns a conversion error, never a value, whenever the     *)
(* unsigned value of the field plus reference_val is outside the range of   *)
(* a 64-bit signed integer.                                                 *)
C5_OverflowIsConversionError ==
    (/\ result.op = "read_i64"
     /\ ValidWidth(result.bits)
     /\ InStream(result.start, result.bits)
     /\ ~AllOnes(result.start, result.bits)
     /\ ~SumFits(FieldValue(result.start, result.bits), result.ref))
    => result.kind = "conversion_error"

(* C6: bytes_read <= max_bytes_to_read in every reachable state, after any  *)
(* sequence of successful or failed reads.                                  *)
C6_WithinBudget == bytes_read <= max_bytes_to_read

\* a second, partial refill has used the budget up and a read went on past it
C6_Witness ==
    /\ max_bytes_to_read > BUF_SIZE
    /\ bytes_read = max_bytes_to_read
    /\ buffer_len < BUF_SIZE
    /\ offset > 8 * max_bytes_to_read

(* C7: between any two read operations 0 <= bit_position < 8 and            *)
(* byte_position <= buffer_len <= capacity, also once the budget is used up *)
C7_CursorInsideBuffer ==
    result.kind # "panic"
    => /\ 0 <= bit_position /\ bit_position < 8
       /\ byte_position <= buffer_len
       /\ buffer_len <= BUF_SIZE

\* hi and lo are the top bits and the low b bits of whole
SplitsInto(whole, hi, lo, b) ==
    \A w \in 0..(U64_BITS - 1) :
        /\ LimbBit(lo, w) = (IF w < b THEN LimbBit(whole, w) ELSE 0)
        /\ LimbBit(hi, w) = (IF w + b < U64_BITS THEN LimbBit(whole, w + b) ELSE 0)

\* the second widths tried after a first read of a bits
SecondWidths(a) == {b \in {1, 5, 8, 13, U64_BITS - a} : b >= 1 /\ a + b <= U64_BITS}

(* C8: for all widths a, b >= 1 with a + b <= 64 and every starting cursor, *)
(* when none of the three spans is all ones, reading a bits and then b bits *)
(* yields values, reading the a + b bits in one read yields a value, the    *)
(* two values are the top a bits and the low b bits of the single value,    *)
(* and both ways leave the cursor at the same stream bit offset.            *)
C8_TwoReadsSplitOne ==
    result.op = "none" =>
    \A m \in {Machine} : \A a \in 1..(U64_BITS - 1) : \A b \in SecondWidths(a) :
      (/\ InStream(offset, a + b)
       /\ ~AllOnes(offset, a)
       /\ ~AllOnes(offset + a, b)
       /\ ~AllOnes(offset, a + b))
      => \A r1 \in {read_u64(m, a)} :
           \A r2 \in {read_u64(r1.m, b)} : \A r12 \in {read_u64(m, a + b)} :
             /\ r1.kind = "value"
             /\ r2.kind = "value"
             /\ r12.kind = "value"
             /\ SplitsInto(r12.val, r1.val, r2.val, b)
             /\ r2.m.offset = r12.m.offset

(* C9: after any sequence of reads, successful or failed, bytes_read equals *)
(* the number of bytes the reader has consumed from the source, and it      *)
(* never decreases.                                                         *)
C9_CountsConsumed == bytes_read = srcPos

(* C10: a read called with a width of 0, a numeric width above 64, or a     *)
(* text width that is not a multiple of 8 returns a precondition error: no  *)
(* value, no other number of bits read, no abort.                           *)
C10_PreconditionError ==
    (result.op # "none" /\ ~ValidRequest) => result.kind = "precondition_error"

\* the 8 bits of the stream from bit o on, as a byte
StreamByte(o) ==
    StreamBit(o) * 128 + StreamBit(o + 1) * 64 + StreamBit(o + 2) * 32 + StreamBit(o + 3) * 16
    + StreamBit(o + 4) * 8 + StreamBit(o + 5) * 4 + StreamBit(o + 6) * 2 + StreamBit(o + 7)

\* the n bytes of the stream from bit o on
TextBytes(o, n) == [j \in 1..n |-> StreamByte(o + 8 * (j - 1))]

(* C11: read_text(bits) with bits a multiple of 8, from any cursor, aligned *)
(* or not, consumes exactly bits bits; when the bits/8 stream bytes are     *)
(* valid UTF-8 it returns exactly those bytes in order; otherwise it        *)
(* returns the UTF-8 error, never absent, whatever the byte values are.     *)
C11_TextIsStreamBytes ==
    (/\ result.op = "read_text"
     /\ result.bits % 8 = 0
     /\ InStream(result.start, result.bits))
    => \A s \in {TextBytes(result.start, result.bits \div 8)} :
         /\ offset = result.start + result.bits
         /\ IF Utf8Valid(s, 1)
            THEN result.kind = "value" /\ result.val = s
            ELSE result.kind = "utf8_error"

\* two different bytes of text returned from a cursor inside a byte
C11_Witness ==
    /\ result.op = "read_text"
    /\ result.kind = "value"
    /\ result.bits = 16
    /\ result.start % 8 # 0
    /\ result.val[1] # result.val[2]

C13_NewReadsNothing ==
    ops = 0
    => /\ bytes_read = 0
       /\ buffer_len = 0
       /\ byte_position = 0
       /\ bit_position = 0
       /\ srcPos = 0
       /\ pulled = 0
       /\ calls = 0
       /\ result = NoResult

\* a reader just constructed over a source and a budget of more than a full
\* staging buffer
C13_Witness ==
    /\ ops = 0
    /\ srcPos = 0
    /\ max_bytes_to_read > BUF_SIZE
    /\ srcLen > max_bytes_to_read

\* min(buffer capacity, max_bytes_to_read - bytes_read)
PermittedLen == IF max_bytes_to_read - bytes_read >= BUF_SIZE
                THEN BUF_SIZE ELSE max_bytes_to_read - bytes_read

(* C14: a refill, which happens when no staged bit is left, makes exactly   *)
(* one exact-length read on the source, of min(capacity, max_bytes_to_read  *)
(* - bytes_read) bytes; it succeeds when the source has that many bytes     *)
(* left, and then buffer_len is that length, bytes_read has grown by it,    *)
(* the staged bytes are the next bytes of the source, and byte_position and *)
(* bit_position are 0.                                                      *)
C14_RefillReadsPermittedLen ==
    (result.kind # "panic" /\ bits_remaining_in_buffer(Machine) = 0)
    => \A r \in {refill_buffer(Machine)} :
         /\ r.calls = calls + 1
         /\ r.status = "ok" <=> srcLen - srcPos >= PermittedLen
         /\ r.status = "ok"
            => /\ r.buffer_len = PermittedLen
               /\ r.bytes_read = bytes_read + PermittedLen
               /\ r.srcPos = srcPos + PermittedLen
               /\ r.pulled = pulled + PermittedLen
               /\ \A i \in 0..(PermittedLen - 1) : r.buffer[i] = SrcByte(srcPos + i)
               /\ r.byte_position = 0
               /\ r.bit_position = 0

\* a full staging buffer consumed to its last bit, with less than a full
\* buffer left of the budget and the source holding it
C14_Witness ==
    /\ result.kind # "panic"
    /\ bytes_read = BUF_SIZE
    /\ byte_position = BUF_SIZE
    /\ bits_remaining_in_buffer(Machine) = 0
    /\ PermittedLen > 0
    /\ PermittedLen < BUF_SIZE
    /\ refill_buffer(Machine).status = "ok"

(* C15: a refill happens only when every staged bit has been consumed, and  *)
(* the bits delivered to the caller are the bits of the source in order,    *)
(* each at most once: a value returned by a read that started after `start` *)
(* delivered bits is made of the source's bits start .. start + bits - 1,   *)
(* which the reader has pulled, also across a refill.                       *)
C15_BitsInSourceOrder ==
    result.kind # "panic"
    => /\ 8 * (pulled - buffer_len) <= offset
       /\ (result.op = "read_usize" /\ result.kind = "value")
          => /\ result.start + result.bits <= 8 * pulled
             /\ result.val = FieldValue(result.start, result.bits)
       /\ (result.op = "read_text" /\ result.kind = "value")
          => /\ result.start + 8 * Len(result.val) <= 8 * pulled
             /\ result.val = TextBytes(result.start, Len(result.val))

(* C16: every byte next_byte hands out is at an index below buffer_len, so  *)
(* it was written by the last successful refill: also after a refill that   *)
(* staged 0 bytes because the budget was used up, and with a budget of 0.   *)
C16_NextByteIsStaged ==
    result.kind # "panic"
    => \A n \in {next_byte(Machine)} :
         n.m.status = "ok" => n.m.byte_position < n.m.buffer_len

\* the outcome r of a read is the source's error, after one call of read_exact
\* and with bytes_read and buffer_len as they are now
FailsUnretried(r) ==
    /\ r.kind = "io_error"
    /\ r.m.calls = calls + 1
    /\ r.m.bytes_read = bytes_read
    /\ r.m.buffer_len = buffer_len

(* C17: when a read needs more bits than are staged and the source cannot   *)
(* supply the bytes the refill asks for, the read returns the source's      *)
(* error and no value, read_exact has been called once and not again, and   *)
(* bytes_read and buffer_len are what they were before the refill.          *)
C17_SourceErrorPropagates ==
    (/\ result.op = "none"
     /\ bits_remaining_in_buffer(Machine) >= 0
     /\ srcLen - srcPos < PermittedLen)
    => \A m \in {Machine} :
         /\ \A bits \in 1..U64_BITS :
              bits > bits_remaining_in_buffer(m) => FailsUnretried(read_usize(m, bits))
         /\ 16 > bits_remaining_in_buffer(m) => FailsUnretried(read_text(m, 16))
         /\ \A r \in {refill_buffer(m)} :
              r.status = "io" /\ r.bytes_read = bytes_read /\ r.buffer_len = buffer_len

\* a full staging buffer with its last byte still to deliver, the source short
\* of the bytes the next refill asks for: a read of 13 bits delivers the byte,
\* then fails
C17_Witness ==
    /\ result.op = "none"
    /\ bytes_read = BUF_SIZE
    /\ bits_remaining_in_buffer(Machine) = 8
    /\ PermittedLen > 0
    /\ srcLen - srcPos < PermittedLen
    /\ read_usize(Machine, 13).kind = "io_error"
    /\ read_usize(Machine, 13).m.offset > offset

(* C18: read_usize(bits) for every bits in 1..64, 64 included, on bits the  *)
(* source holds, trips no assertion: it does not panic, and the check       *)
(* val < (1u64 << bits) on the value it returns is well-defined and true.   *)
C18_NoAssertionTrips ==
    (/\ result.op = "read_usize"
     /\ ValidWidth(result.bits)
     /\ InStream(result.start, result.bits))
    => /\ result.kind # "panic"
       /\ result.kind = "value" => ~ValueFitsAssertFails(result.val, result.bits)

(* C19: the staging buffer holds ceil(MAX_BIT_WIDTH/8) bytes: no more bytes *)
(* than that are staged by a refill, and bytes_read is never ahead of the   *)
(* bits the caller has consumed by more than that many bytes.               *)
C19_CapacityIsFieldBytes ==
    result.kind # "panic"
    => /\ buffer_len <= BYTE_ARRAY_SIZE
       /\ 8 * bytes_read - offset <= 8 * BYTE_ARRAY_SIZE

(* C19 as amended: the staging buffer holds MAX_BIT_WIDTH bytes, 8 times    *)
(* the bytes of the widest field: no refill stages or pulls more than       *)
(* MAX_BIT_WIDTH bytes, and bytes_read is never ahead of the bits the       *)
(* caller has consumed by more than MAX_BIT_WIDTH bytes.                    *)
C19_CapacityIsMaxBitWidth ==
    result.kind # "panic"
    => /\ buffer_len <= MAX_BIT_WIDTH
       /\ 8 * bytes_read - offset <= 8 * MAX_BIT_WIDTH
       /\ \A r \in {refill_buffer(Machine)} :
            /\ r.pulled - pulled <= MAX_BIT_WIDTH
            /\ r.buffer_len <= MAX_BIT_WIDTH

\* one bit consumed of a first refill that staged MAX_BIT_WIDTH bytes, more
\* than the bytes of the widest field
C19_Witness ==
    /\ result.kind = "value"
    /\ offset = 1
    /\ buffer_len = MAX_BIT_WIDTH
    /\ bytes_read = MAX_BIT_WIDTH
    /\ buffer_len > BYTE_ARRAY_SIZE
    /\ pulled > BYTE_ARRAY_SIZE

====
